---- MODULE Spec2Model ----
(***************************************************************************)
(* Model of the gin rate-limiter middleware of HerdMaster                  *)
(* (package middleware: RateLimiter, GetRequestIDFromCtx).                 *)
(*                                                                         *)
(* One process per HTTP request.  The handler returned by                  *)
(* RateLimiter.GetRateLimiter is split at its accesses to shared state     *)
(* (the atomic counters and the limiter channel); code between two such    *)
(* accesses touches only the request's own gin.Context and is folded into  *)
(* the access that precedes it.                                            *)
(*                                                                         *)
(* The select statement follows the Go runtime: a goroutine that finds no  *)
(* case ready parks on the channel's send queue; a later receive hands the *)
(* freed buffer cell to the first parked sender, and a later close of the  *)
(* context's Done channel wakes the goroutine with the Done case chosen.   *)
(* Whichever happens first decides the case the goroutine runs when it is  *)
(* scheduled again.                                                        *)
(***************************************************************************)
EXTENDS Integers, Sequences, FiniteSets, TLC

\* ---------------------------------------------------------------- bounds
NumReqs == 3
NumLive == 2
MaxRunningArg == 1
MaxWaitArg == 2
RetryArg == 2
\* largest argument tried when NewRateLimiter is studied on its own
MaxArg == 3
\* requests followed through the request-identifier code
NumIdReqs == 3
\* requests sent through clientConnLimiter, and the largest MaxConn tried
NumConnReqs == 3
MaxConnArg == 2

Reqs == 1..NumReqs
IdReqs == 1..NumIdReqs
ConnReqs == 1..NumConnReqs

\* ------------------------------------------------------- program constants
defaultMaxRunning == 100
defaultMaxWait == 100
defaultRetryAfter == 1
StatusInternalServerError == 500
StatusTooManyRequests == 429
StatusOK == 200

\* writer status before anything is written (gin's defaultStatus)
DefaultStatus == StatusOK
\* Retry-After header absent: Header.Get gives the empty string
NoHeader == <<>>
\* statuses a downstream chain may leave on the writer
DownstreamStatuses == {StatusOK, StatusInternalServerError}

\* strconv.Itoa on a non-negative int: its decimal digits, most significant first
RECURSIVE Itoa(_)
Itoa(n) == IF n < 10 THEN <<n>> ELSE Append(Itoa(n \div 10), n % 10)

\* strings are sequences; the empty string, which Header.Get and c.GetHeader
\* also give for a header that is absent
EmptyString == <<>>
\* identifiers a client may send in X-Request-ID
ClientIds == {<<"client", 1>>, <<"client", 2>>}
\* header values that are not identifiers at all
MalformedIds == {<<"malformed", 1>>}
InboundIds == {EmptyString} \cup ClientIds \cup MalformedIds
\* the string returned by the n-th call of genUuid: uuid.New() draws 122
\* random bits, and the value is taken never to repeat
genUuid(n) == <<"uuid4", n>>
\* the validation "uuid4_rfc4122" that the tests apply to identifiers
IsUuid4(s) == s # EmptyString /\ s \notin MalformedIds

\* c.Keys[RequestIDKey]: no entry, a string, or a value of another type
NoKey == [typ |-> "absent", val |-> EmptyString]
StringKey(v) == [typ |-> "string", val |-> v]
NonStringKey == [typ |-> "nonstring", val |-> <<"int", 12345>>]

\* what c.Get(RequestIDKey) may find in the per-request context
CtxKinds == {"absent", "string", "nonstring"}

\* error values: a nil interface or a pointer to a freshly allocated struct
NilErr == [typ |-> "nil", addr |-> "nil"]
NewErrFallbackUuidUsed == [typ |-> "ErrFallbackUuidUsed", addr |-> "reqID.go:34"]
NewErrTypeCastFailed == [typ |-> "ErrTypeCastFailed", addr |-> "reqID.go:22"]
\* the target &ErrTypeCastFailed{} allocated by the comparison in the handler
TypeCastTarget == [typ |-> "ErrTypeCastFailed", addr |-> "ratelimiter.go:61"]

\* errors.Is on pointer errors that define neither Is nor Unwrap:
\* plain == on the two pointers
ErrorsIs(e, target) == e = target

VARIABLES
    arrivals,                          \* number of requests the transport delivers
    args,                              \* arguments NewRateLimiter was called with, <<>> before the call
    warnings,                          \* records written through lg.Warn, in order
    maxRunning, maxWait, retryAfter,   \* RateLimiter configuration fields
    limiterCap,                        \* cap(rm.limiter)
    limiter,                           \* number of elements buffered in rm.limiter
    sendq,                             \* goroutines parked on a send to rm.limiter
    running, total, timedOut, rejected,\* the four atomic counters
    pc,                                \* position of each request in the handler
    ctxDone,                           \* c.Request.Context().Done() is closed
    err,                               \* err returned by GetRequestIDFromCtx
    status,                            \* c.Writer.Status()
    retryHdr,                          \* Retry-After response header
    aborted,                           \* c.IsAborted()
    nextCalled,                        \* c.Next() was invoked by runReqWithSync
    events,                            \* events runReqWithSync has emitted for the request
    path,                              \* branch the handler took
    panicked,                          \* a panic is unwinding out of the handler
    overAtInc,                         \* the request's own total.Add(1) produced a value > maxWait
    cancelledParked,                   \* the context was cancelled while parked in select
    idpc,                              \* position of each request in the identifier code
    inHeader,                          \* inbound X-Request-ID header, c.GetHeader(RequestIDKey)
    keys,                              \* c.Keys[RequestIDKey]
    outHeader,                         \* c.Writer.Header().Get(RequestIDKey)
    gotId, gotErr,                     \* what GetRequestIDFromCtx returned
    chosenBy,                          \* the code that chose the request's identifier
    uuids,                             \* number of calls of genUuid so far
    connCap,                           \* capacity of clientConnLimiter's channel (MaxConn)
    connLimiter,                       \* number of elements buffered in that channel
    cpc                                \* position of each request in clientConnLimiter

vars == <<arrivals, args, warnings, maxRunning, maxWait, retryAfter, limiterCap,
          limiter, sendq, running, total,
          timedOut, rejected, pc, ctxDone, err, status, retryHdr,
          aborted, nextCalled, events, path, panicked, overAtInc, cancelledParked,
          idpc, inHeader, keys, outHeader, gotId, gotErr, chosenBy, uuids,
          connCap, connLimiter, cpc>>

idVars == <<idpc, inHeader, keys, outHeader, gotId, gotErr, chosenBy, uuids>>
connVars == <<connCap, connLimiter, cpc>>
\* what no step of the rate limiter's handler writes
cfgVars == <<arrivals, args, warnings, maxRunning, maxWait, retryAfter, limiterCap,
             idVars, connVars>>
reqVars == <<pc, ctxDone, err, status, retryHdr, aborted, nextCalled, events, path,
             panicked, overAtInc, cancelledParked>>
respVars == <<status, retryHdr, aborted>>

\* ------------------------------------------------------------ construction
\* lg.Warn(msg, "supplied limit", supplied, "default", def)
Warn(msg, supplied, def) == [msg |-> msg, supplied |-> supplied, default |-> def]

\* faulty variant: only negative parameters are replaced, 0 is kept
normalizeParamsKeepZero(mr, mw, ra) ==
    [maxRunning |-> IF mr < 0 THEN defaultMaxRunning ELSE mr,
     maxWait    |-> IF mw < 0 THEN defaultMaxWait ELSE mw,
     retryAfter |-> IF ra < 0 THEN defaultRetryAfter ELSE ra,
     warns      |-> <<>>]

\* Each parameter below 1 is overwritten with its default, and the warning is
\* written after the assignment: its "supplied limit" attribute reads the
\* parameter's new value.
normalizeParams(mr, mw, ra) ==
    LET mr1 == IF mr < 1 THEN defaultMaxRunning ELSE mr
        mw1 == IF mw < 1 THEN defaultMaxWait ELSE mw
        ra1 == IF ra < 1 THEN defaultRetryAfter ELSE ra
        w1 == IF mr < 1
              THEN <<Warn("invalid max connection limit", mr1, defaultMaxRunning)>>
              ELSE <<>>
        w2 == IF mw < 1
              THEN <<Warn("invalid max total limit", mw1, defaultMaxWait)>>
              ELSE <<>>
        w3 == IF ra < 1
              THEN <<Warn("invalid max retry after", ra1, defaultRetryAfter)>>
              ELSE <<>>
    IN [maxRunning |-> mr1, maxWait |-> mw1, retryAfter |-> ra1,
        warns |-> w1 \o w2 \o w3]

\* the fields of the RateLimiter built from the three arguments, with the
\* warnings written on the way; the channel is made with the normalized
\* maxRunning as its capacity
NewRateLimiter(mr, mw, ra) ==
    LET n == normalizeParams(mr, mw, ra) IN
    [maxRunning |-> n.maxRunning, maxWait |-> n.maxWait,
     retryAfter |-> n.retryAfter, limiterCap |-> n.maxRunning,
     warns |-> n.warns]

\* the state right after NewRateLimiter(mr, mw, ra) has returned
Constructed(mr, mw, ra) ==
    LET rm == NewRateLimiter(mr, mw, ra) IN
    /\ args = <<mr, mw, ra>>
    /\ warnings = rm.warns
    /\ maxRunning = rm.maxRunning
    /\ maxWait = rm.maxWait
    /\ retryAfter = rm.retryAfter
    /\ limiterCap = rm.limiterCap
    /\ limiter = 0
    /\ sendq = <<>>
    /\ running = 0
    /\ total = 0
    /\ timedOut = 0
    /\ rejected = 0

\* no request has arrived yet
NoRequests ==
    /\ pc = [r \in Reqs |-> "idle"]
    /\ ctxDone = [r \in Reqs |-> FALSE]
    /\ err = [r \in Reqs |-> NilErr]
    /\ status = [r \in Reqs |-> DefaultStatus]
    /\ retryHdr = [r \in Reqs |-> NoHeader]
    /\ aborted = [r \in Reqs |-> FALSE]
    /\ nextCalled = [r \in Reqs |-> FALSE]
    /\ events = [r \in Reqs |-> <<>>]
    /\ path = [r \in Reqs |-> "none"]
    /\ panicked = [r \in Reqs |-> FALSE]
    /\ overAtInc = [r \in Reqs |-> FALSE]
    /\ cancelledParked = [r \in Reqs |-> FALSE]

\* no request has reached the identifier code yet
NoIdRequests ==
    /\ idpc = [r \in IdReqs |-> "start"]
    /\ inHeader = [r \in IdReqs |-> EmptyString]
    /\ keys = [r \in IdReqs |-> NoKey]
    /\ outHeader = [r \in IdReqs |-> EmptyString]
    /\ gotId = [r \in IdReqs |-> EmptyString]
    /\ gotErr = [r \in IdReqs |-> NilErr]
    /\ chosenBy = [r \in IdReqs |-> "none"]
    /\ uuids = 0

\* no router with a clientConnLimiter has been built
NoConnLimiter ==
    /\ connCap = 0
    /\ connLimiter = 0
    /\ cpc = [r \in ConnReqs |-> "idle"]

Init ==
    /\ \E mr \in {MaxRunningArg}, mw \in {0, MaxWaitArg}, ra \in {RetryArg} :
          Constructed(mr, mw, ra)
    /\ arrivals = NumReqs
    /\ NoRequests
    /\ NoIdRequests
    /\ NoConnLimiter

\* a limiter with one running slot and the default in-flight bound
LiveInit ==
    /\ Constructed(1, 0, RetryArg)
    /\ arrivals = NumLive
    /\ NoRequests
    /\ NoIdRequests
    /\ NoConnLimiter

\* ------------------------------------------- NewRateLimiter on its own
\* arguments a caller may pass
ArgVals == -1..MaxArg

\* no RateLimiter has been built yet
NotConstructed ==
    /\ args = <<>>
    /\ warnings = <<>>
    /\ maxRunning = 0
    /\ maxWait = 0
    /\ retryAfter = 0
    /\ limiterCap = 0
    /\ limiter = 0
    /\ sendq = <<>>
    /\ running = 0
    /\ total = 0
    /\ timedOut = 0
    /\ rejected = 0

ConfigInit ==
    /\ NotConstructed
    /\ arrivals = 0
    /\ NoRequests
    /\ NoIdRequests
    /\ NoConnLimiter

\* a call of NewRateLimiter(mr, mw, ra, lg)
Construct(mr, mw, ra) ==
    /\ args = <<>>
    /\ LET rm == NewRateLimiter(mr, mw, ra) IN
          /\ args' = <<mr, mw, ra>>
          /\ warnings' = rm.warns
          /\ maxRunning' = rm.maxRunning
          /\ maxWait' = rm.maxWait
          /\ retryAfter' = rm.retryAfter
          /\ limiterCap' = rm.limiterCap
    /\ UNCHANGED <<arrivals, limiter, sendq, running, total, timedOut, rejected,
                   reqVars, idVars, connVars>>

ConfigNext == \E mr, mw, ra \in ArgVals : Construct(mr, mw, ra)

ConfigSpec == ConfigInit /\ [][ConfigNext]_vars

\* ------------------------------------------------------ GetRequestIDFromCtx
\* faulty variant: a value of the wrong type is reported like a missing key
GetRequestIDFromCtxOneError(k) ==
    IF k = "string" THEN NilErr ELSE NewErrFallbackUuidUsed

\* error returned for each kind of context value.  On "absent" the fallback
\* also stores the generated identifier in c.Keys and in the X-Request-ID
\* response header; nothing in the rate limiter reads either.
GetRequestIDFromCtx(k) ==
    IF k = "absent" THEN NewErrFallbackUuidUsed
    ELSE IF k = "nonstring" THEN NewErrTypeCastFailed
    ELSE NilErr

\* ------------------------------------------------- request identifiers
\* Each request passes through one upstream middleware, then through a call
\* of GetRequestIDFromCtx (the rate limiter's, or a handler's), then through
\* the rest of the chain.
rateVars == <<arrivals, args, warnings, maxRunning, maxWait, retryAfter, limiterCap,
              limiter, sendq, running, total, timedOut, rejected, reqVars>>
rlVars == <<rateVars, connVars>>

IdInit ==
    /\ NotConstructed
    /\ arrivals = 0
    /\ NoRequests
    /\ NoIdRequests
    /\ NoConnLimiter

\* faulty variant: the inbound header is ignored, an identifier is always generated
RequestIDMiddlewareAlwaysNew(r, h) ==
    /\ idpc[r] = "start"
    /\ inHeader' = [inHeader EXCEPT ![r] = h]
    /\ uuids' = uuids + 1
    /\ keys' = [keys EXCEPT ![r] = StringKey(genUuid(uuids + 1))]
    /\ outHeader' = [outHeader EXCEPT ![r] = genUuid(uuids + 1)]
    /\ chosenBy' = [chosenBy EXCEPT ![r] = "middleware"]
    /\ idpc' = [idpc EXCEPT ![r] = "chain"]
    /\ UNCHANGED <<rlVars, gotId, gotErr>>

\* the request arrives with h in its X-Request-ID header (empty: no header)
\* requestID := c.GetHeader(RequestIDKey); if requestID == "" { requestID = genUuid() }
\* c.Set(RequestIDKey, requestID); c.Writer.Header().Set(RequestIDKey, requestID); c.Next()
RequestIDMiddleware(r, h) ==
    /\ idpc[r] = "start"
    /\ inHeader' = [inHeader EXCEPT ![r] = h]
    /\ LET generate == h = EmptyString
           requestID == IF generate THEN genUuid(uuids + 1) ELSE h
       IN /\ uuids' = IF generate THEN uuids + 1 ELSE uuids
          /\ keys' = [keys EXCEPT ![r] = StringKey(requestID)]
          /\ outHeader' = [outHeader EXCEPT ![r] = requestID]
    /\ chosenBy' = [chosenBy EXCEPT ![r] = "middleware"]
    /\ idpc' = [idpc EXCEPT ![r] = "chain"]
    /\ UNCHANGED <<rlVars, gotId, gotErr>>

\* a router without RequestIDMiddleware: the upstream middleware leaves the
\* key alone or stores a value of its own under it, then calls c.Next()
OtherMiddleware(r, k) ==
    /\ idpc[r] = "start"
    /\ keys' = [keys EXCEPT ![r] = k]
    /\ idpc' = [idpc EXCEPT ![r] = "chain"]
    /\ UNCHANGED <<rlVars, inHeader, outHeader, gotId, gotErr, chosenBy, uuids>>

\* faulty variant: the generated identifier reaches the response header only
fallbackUuidHandlerHeaderOnly(r) ==
    /\ uuids' = uuids + 1
    /\ outHeader' = [outHeader EXCEPT ![r] = genUuid(uuids + 1)]
    /\ chosenBy' = [chosenBy EXCEPT ![r] = "fallback"]
    /\ gotId' = [gotId EXCEPT ![r] = genUuid(uuids + 1)]
    /\ UNCHANGED keys

\* requestID := genUuid(); c.Set(RequestIDKey, requestID);
\* c.Writer.Header().Set(RequestIDKey, requestID); return requestID
fallbackUuidHandler(r) ==
    /\ uuids' = uuids + 1
    /\ keys' = [keys EXCEPT ![r] = StringKey(genUuid(uuids + 1))]
    /\ outHeader' = [outHeader EXCEPT ![r] = genUuid(uuids + 1)]
    /\ chosenBy' = [chosenBy EXCEPT ![r] = "fallback"]
    /\ gotId' = [gotId EXCEPT ![r] = genUuid(uuids + 1)]

\* a call of GetRequestIDFromCtx(c) below the upstream middleware, as the rate
\* limiter makes it: uuid, err := GetRequestIDFromCtx(c); the handler aborts
\* when errors.Is(err, &ErrTypeCastFailed{}) and otherwise goes on with uuid
\* as the identifier of its logger and events
GetRequestIDFromCtxCall(r) ==
    /\ idpc[r] = "chain"
    /\ gotErr' = [gotErr EXCEPT ![r] = GetRequestIDFromCtx(keys[r].typ)]
    /\ IF keys[r].typ = "absent"
       THEN fallbackUuidHandler(r)
       ELSE /\ gotId' = [gotId EXCEPT ![r] =
                            IF keys[r].typ = "string" THEN keys[r].val ELSE EmptyString]
            /\ UNCHANGED <<keys, outHeader, chosenBy, uuids>>
    /\ idpc' = [idpc EXCEPT ![r] =
                  IF /\ GetRequestIDFromCtx(keys[r].typ) # NilErr
                     /\ ErrorsIs(GetRequestIDFromCtx(keys[r].typ), TypeCastTarget)
                  THEN "aborted" ELSE "handler"]
    /\ UNCHANGED <<rlVars, inHeader>>

\* the rest of the chain runs and returns; it leaves the identifier alone
HandlerReturn(r) ==
    /\ idpc[r] = "handler"
    /\ idpc' = [idpc EXCEPT ![r] = "end"]
    /\ UNCHANGED <<rlVars, inHeader, keys, outHeader, gotId, gotErr, chosenBy, uuids>>

\* values an upstream middleware other than RequestIDMiddleware leaves under the key
OtherKeys == {NoKey, NonStringKey} \cup {StringKey(v) : v \in ClientIds}

IdNext ==
    \E r \in IdReqs :
        \/ \E h \in InboundIds : RequestIDMiddleware(r, h)
        \/ \E k \in OtherKeys : OtherMiddleware(r, k)
        \/ GetRequestIDFromCtxCall(r)
        \/ HandlerReturn(r)

IdSpec == IdInit /\ [][IdNext]_vars

\* ----------------------------------------------------- clientConnLimiter
\* values of MaxConn that the validation of the configuration accepts (gte=0)
MaxConnVals == 0..MaxConnArg

\* initGin(MaxConn): limiter := make(chan struct{}, MaxConn)
ConnInit ==
    /\ NotConstructed
    /\ arrivals = 0
    /\ NoRequests
    /\ NoIdRequests
    /\ connCap \in MaxConnVals
    /\ connLimiter = 0
    /\ cpc = [r \in ConnReqs |-> "idle"]

\* a request enters the handler and reaches the select
ConnArrive(r) ==
    /\ cpc[r] = "idle"
    /\ cpc' = [cpc EXCEPT ![r] = "send"]
    /\ UNCHANGED <<rateVars, idVars, connCap, connLimiter>>

\* the send can proceed while the buffer has room.  A channel made with
\* capacity 0 has no buffer: a send on it needs a receiver that is already
\* waiting, and the only receives are those of requests past their own send
ConnSendReady == connLimiter < connCap

\* case limiter <- struct{}{}: the only case of the select, in a loop that
\* the case leaves by return; then c.Next()
ConnSend(r) ==
    /\ cpc[r] = "send"
    /\ ConnSendReady
    /\ connLimiter' = connLimiter + 1
    /\ cpc' = [cpc EXCEPT ![r] = "next"]
    /\ UNCHANGED <<rateVars, idVars, connCap>>

\* c.Next() returns
ConnNextReturn(r) ==
    /\ cpc[r] = "next"
    /\ cpc' = [cpc EXCEPT ![r] = "recv"]
    /\ UNCHANGED <<rateVars, idVars, connCap, connLimiter>>

\* c.Next() panics: the panic unwinds through the handler, whose receive is
\* a plain statement after c.Next(), up to gin.Recovery, installed before the
\* limiter, which recovers it and answers 500
ConnNextPanic(r) ==
    /\ cpc[r] = "next"
    /\ cpc' = [cpc EXCEPT ![r] = "recovered"]
    /\ UNCHANGED <<rateVars, idVars, connCap, connLimiter>>

\* <-limiter; return
ConnRecv(r) ==
    /\ cpc[r] = "recv"
    /\ connLimiter > 0
    /\ connLimiter' = connLimiter - 1
    /\ cpc' = [cpc EXCEPT ![r] = "done"]
    /\ UNCHANGED <<rateVars, idVars, connCap>>

ConnNext ==
    \E r \in ConnReqs :
        \/ ConnArrive(r)
        \/ ConnSend(r)
        \/ ConnNextReturn(r)
        \/ ConnNextPanic(r)
        \/ ConnRecv(r)

ConnSpec == ConnInit /\ [][ConnNext]_vars

\* the steps of the handler itself are eventually scheduled; arrivals and the
\* end of a downstream chain are up to the environment
ConnFairness ==
    \A r \in ConnReqs : WF_vars(ConnSend(r)) /\ WF_vars(ConnRecv(r))

ConnLiveSpec == ConnInit /\ [][ConnNext]_vars /\ ConnFairness

\* ------------------------------------------------------------ the handler
\* Requests are numbered in their order of arrival; the transport delivers
\* `arrivals` of them.
\* rm.total.Add(1); defer rm.total.Add(-1); uuid, err := GetRequestIDFromCtx(c);
\* abort with 500 when errors.Is(err, &ErrTypeCastFailed{})
Enter(r, k) ==
    /\ pc[r] = "idle"
    /\ r <= arrivals
    /\ \A q \in Reqs : q < r => pc[q] # "idle"
    /\ total' = total + 1
    /\ overAtInc' = [overAtInc EXCEPT ![r] = (total + 1 > maxWait)]
    /\ err' = [err EXCEPT ![r] = GetRequestIDFromCtx(k)]
    /\ IF GetRequestIDFromCtx(k) # NilErr /\ ErrorsIs(GetRequestIDFromCtx(k), TypeCastTarget)
       THEN /\ status' = [status EXCEPT ![r] = StatusInternalServerError]
            /\ aborted' = [aborted EXCEPT ![r] = TRUE]
            /\ path' = [path EXCEPT ![r] = "idError"]
            /\ pc' = [pc EXCEPT ![r] = "exit"]
       ELSE /\ pc' = [pc EXCEPT ![r] = "check"]
            /\ UNCHANGED <<status, aborted, path>>
    /\ UNCHANGED <<cfgVars, limiter, sendq, running, timedOut, rejected, ctxDone,
                   retryHdr, nextCalled, events, panicked, cancelledParked>>

\* faulty variant: the timeout branch also counts a rejection
CountTimedOutAlsoRejected == timedOut' = timedOut + 1 /\ rejected' = rejected + 1

\* rm.timedOut.Add(1)
CountTimedOut == timedOut' = timedOut + 1 /\ UNCHANGED rejected

\* faulty variant: the rejection branch adds -1, as the deferred calls do
CountRejectedDown == rejected' = rejected - 1 /\ UNCHANGED timedOut

\* rm.rejected.Add(1)
CountRejected == rejected' = rejected + 1 /\ UNCHANGED timedOut

\* faulty variant: the bound test compares with the number of slots
RejectCondOnMaxRunning == total >= maxRunning

\* faulty variant: the bound test reads the running counter
RejectCondOnRunning == running >= maxWait

\* the bound test of the handler
RejectCond == total >= maxWait

\* if rm.total.Load() >= int32(rm.maxWait) { rm.rejected.Add(1); ...
\*   err.Error() ...; c.Header("Retry-After", ...); c.AbortWithStatus(429); return }
\* err.Error() on a nil err panics before the header and the status are set.
\* err is not read after this point.
Check(r) ==
    /\ pc[r] = "check"
    /\ err' = [err EXCEPT ![r] = NilErr]
    /\ IF RejectCond
       THEN /\ CountRejected
            /\ path' = [path EXCEPT ![r] = "rejected"]
            /\ pc' = [pc EXCEPT ![r] = "exit"]
            /\ IF err[r] = NilErr
               THEN /\ panicked' = [panicked EXCEPT ![r] = TRUE]
                    /\ UNCHANGED respVars
               ELSE /\ retryHdr' = [retryHdr EXCEPT ![r] = Itoa(retryAfter)]
                    /\ status' = [status EXCEPT ![r] = StatusTooManyRequests]
                    /\ aborted' = [aborted EXCEPT ![r] = TRUE]
                    /\ UNCHANGED panicked
       ELSE /\ pc' = [pc EXCEPT ![r] = "select"]
            /\ UNCHANGED <<rejected, timedOut, path, panicked, respVars>>
    /\ UNCHANGED <<cfgVars, limiter, sendq, running, total, ctxDone,
                   nextCalled, events, overAtInc, cancelledParked>>

\* faulty variant: the channel is made one cell too large
SendReadyOneMore == limiter <= limiterCap

\* case rm.limiter <- struct{}{}: can proceed when the buffer has room
SendReady == limiter < limiterCap

\* faulty variant: the timeout branch aborts without the Retry-After header
TimedOutBranchNoHeader(r) ==
    /\ CountTimedOut
    /\ status' = [status EXCEPT ![r] = StatusTooManyRequests]
    /\ aborted' = [aborted EXCEPT ![r] = TRUE]
    /\ path' = [path EXCEPT ![r] = "timedOut"]
    /\ pc' = [pc EXCEPT ![r] = "exit"]
    /\ UNCHANGED retryHdr

\* faulty variant: the timeout branch writes the status without aborting the chain
TimedOutBranchNoAbort(r) ==
    /\ CountTimedOut
    /\ retryHdr' = [retryHdr EXCEPT ![r] = Itoa(retryAfter)]
    /\ status' = [status EXCEPT ![r] = StatusTooManyRequests]
    /\ path' = [path EXCEPT ![r] = "timedOut"]
    /\ pc' = [pc EXCEPT ![r] = "exit"]
    /\ UNCHANGED aborted

\* body of the case <-c.Request.Context().Done()
TimedOutBranch(r) ==
    /\ CountTimedOut
    /\ retryHdr' = [retryHdr EXCEPT ![r] = Itoa(retryAfter)]
    /\ status' = [status EXCEPT ![r] = StatusTooManyRequests]
    /\ aborted' = [aborted EXCEPT ![r] = TRUE]
    /\ path' = [path EXCEPT ![r] = "timedOut"]
    /\ pc' = [pc EXCEPT ![r] = "exit"]

\* select picks the send case
SelectSend(r) ==
    /\ pc[r] = "select"
    /\ overAtInc' = [overAtInc EXCEPT ![r] = FALSE]
    /\ SendReady
    /\ limiter' = limiter + 1
    /\ pc' = [pc EXCEPT ![r] = "run"]
    /\ UNCHANGED <<cfgVars, sendq, running, total, timedOut, rejected, ctxDone,
                   err, respVars, nextCalled, events, path, panicked, cancelledParked>>

\* faulty variant: the select also has a timer case of the limiter's own
SelectDoneOwnTimer(r) ==
    /\ pc[r] = "select"
    /\ overAtInc' = [overAtInc EXCEPT ![r] = FALSE]
    /\ TimedOutBranch(r)
    /\ UNCHANGED <<cfgVars, limiter, sendq, running, total, ctxDone,
                   err, nextCalled, events, panicked, cancelledParked>>

\* select picks the Done case
SelectDone(r) ==
    /\ pc[r] = "select"
    /\ overAtInc' = [overAtInc EXCEPT ![r] = FALSE]
    /\ ctxDone[r]
    /\ TimedOutBranch(r)
    /\ UNCHANGED <<cfgVars, limiter, sendq, running, total, ctxDone,
                   err, nextCalled, events, panicked, cancelledParked>>

\* no case can proceed: the goroutine parks on the limiter's send queue
SelectPark(r) ==
    /\ pc[r] = "select"
    /\ overAtInc' = [overAtInc EXCEPT ![r] = FALSE]
    /\ ~SendReady
    /\ ~ctxDone[r]
    /\ sendq' = Append(sendq, r)
    /\ pc' = [pc EXCEPT ![r] = "parked"]
    /\ UNCHANGED <<cfgVars, limiter, running, total, timedOut, rejected, ctxDone,
                   err, respVars, nextCalled, events, path, panicked, cancelledParked>>

Remove(q, r) == SelectSeq(q, LAMBDA x : x # r)

\* faulty variant: the woken goroutine evaluates the select again
WakeByDoneRetry(r) ==
    /\ pc' = [pc EXCEPT ![r] = "select"]
    /\ sendq' = Remove(sendq, r)

\* faulty variant: the select has no Done case, a cancellation wakes nobody
WakeByDoneLost(r) == UNCHANGED <<pc, sendq>>

\* closing Done wakes a goroutine parked in the select with the Done case chosen
WakeByDone(r) ==
    /\ pc' = [pc EXCEPT ![r] = "wokeDone"]
    /\ sendq' = Remove(sendq, r)

\* the transport cancels the request's context (or its deadline passes).
\* The handler looks at Done only in its select: a cancellation before the
\* select acts like one on entry to it, a later one is not observed.
CtxCancel(r) ==
    /\ pc[r] \in {"select", "parked"}
    /\ ~ctxDone[r]
    /\ ctxDone' = [ctxDone EXCEPT ![r] = TRUE]
    /\ cancelledParked' = [cancelledParked EXCEPT ![r] = (pc[r] = "parked")]
    /\ IF pc[r] = "parked" THEN WakeByDone(r) ELSE UNCHANGED <<pc, sendq>>
    /\ UNCHANGED <<cfgVars, limiter, running, total, timedOut, rejected,
                   err, respVars, nextCalled, events, path, panicked, overAtInc>>

\* the woken goroutine runs the Done case
WokenDone(r) ==
    /\ pc[r] = "wokeDone"
    /\ TimedOutBranch(r)
    /\ UNCHANGED <<cfgVars, limiter, sendq, running, total, ctxDone,
                   err, nextCalled, events, panicked, overAtInc, cancelledParked>>

\* span.AddEvent("request accepted"); reqLg.Info("request accepted")
Accepted == [name |-> "request accepted", status |-> 0]
\* span.AddEvent("request completed", Status: c.Writer.Status(), Duration: ...)
Completed(st) == [name |-> "request completed", status |-> st]

\* faulty variant: the retry hint is written for every request that gets a slot
RunStartWithHeader(r) ==
    /\ pc[r] = "run"
    /\ running' = running + 1
    /\ path' = [path EXCEPT ![r] = "ran"]
    /\ retryHdr' = [retryHdr EXCEPT ![r] = Itoa(retryAfter)]
    /\ events' = [events EXCEPT ![r] = Append(@, Accepted)]
    /\ pc' = [pc EXCEPT ![r] = "next"]
    /\ UNCHANGED <<cfgVars, limiter, sendq, total, timedOut, rejected, ctxDone,
                   err, status, aborted, nextCalled, panicked, overAtInc, cancelledParked>>

\* runReqWithSync: rm.running.Add(1); the two defers; "request accepted"
RunStart(r) ==
    /\ pc[r] = "run"
    /\ running' = running + 1
    /\ path' = [path EXCEPT ![r] = "ran"]
    /\ events' = [events EXCEPT ![r] = Append(@, Accepted)]
    /\ pc' = [pc EXCEPT ![r] = "next"]
    /\ UNCHANGED <<cfgVars, limiter, sendq, total, timedOut, rejected, ctxDone,
                   err, respVars, nextCalled, panicked, overAtInc, cancelledParked>>

\* c.Next() returns, the downstream chain having written status st; the
\* "request completed" event follows with c.Writer.Status()
NextReturn(r, st) ==
    /\ pc[r] = "next"
    /\ nextCalled' = [nextCalled EXCEPT ![r] = TRUE]
    /\ status' = [status EXCEPT ![r] = st]
    /\ events' = [events EXCEPT ![r] = Append(@, Completed(st))]
    /\ pc' = [pc EXCEPT ![r] = "release"]
    /\ UNCHANGED <<cfgVars, limiter, sendq, running, total, timedOut, rejected,
                   ctxDone, err, retryHdr, aborted, path, panicked,
                   overAtInc, cancelledParked>>

\* c.Next() panics: the deferred calls run while the panic unwinds.  Neither
\* runReqWithSync nor the handler calls recover(), so panicked stays set when
\* the handler is left: the panic continues into the caller of the middleware.
\* The statements after c.Next() are skipped: no "request completed" event.
NextPanic(r) ==
    /\ pc[r] = "next"
    /\ nextCalled' = [nextCalled EXCEPT ![r] = TRUE]
    /\ panicked' = [panicked EXCEPT ![r] = TRUE]
    /\ pc' = [pc EXCEPT ![r] = "release"]
    /\ UNCHANGED <<cfgVars, limiter, sendq, running, total, timedOut, rejected,
                   ctxDone, err, respVars, events, path, overAtInc, cancelledParked>>

\* faulty variant: the receive is not deferred and is skipped when c.Next() panics
ReleaseNotDeferred(r) ==
    /\ pc[r] = "release"
    /\ limiter > 0
    /\ IF panicked[r]
       THEN /\ pc' = [pc EXCEPT ![r] = "runDec"]
            /\ UNCHANGED <<limiter, sendq>>
       ELSE IF sendq # <<>>
       THEN /\ pc' = [pc EXCEPT ![r] = "runDec", ![Head(sendq)] = "run"]
            /\ sendq' = Tail(sendq)
            /\ UNCHANGED limiter
       ELSE /\ pc' = [pc EXCEPT ![r] = "runDec"]
            /\ limiter' = limiter - 1
            /\ UNCHANGED sendq
    /\ UNCHANGED <<cfgVars, running, total, timedOut, rejected, ctxDone, err, respVars, nextCalled, events, path, panicked, overAtInc,
                   cancelledParked>>

\* defer func() { <-rm.limiter }(): a receive on the full buffer hands the freed
\* cell to the first parked sender, otherwise the buffer shrinks by one
Release(r) ==
    /\ pc[r] = "release"
    /\ limiter > 0
    /\ IF sendq # <<>>
       THEN /\ pc' = [pc EXCEPT ![r] = "runDec", ![Head(sendq)] = "run"]
            /\ sendq' = Tail(sendq)
            /\ UNCHANGED limiter
       ELSE /\ pc' = [pc EXCEPT ![r] = "runDec"]
            /\ limiter' = limiter - 1
            /\ UNCHANGED sendq
    /\ UNCHANGED <<cfgVars, running, total, timedOut, rejected, ctxDone, err, respVars, nextCalled, events, path, panicked, overAtInc, cancelledParked>>

\* defer rm.running.Add(-1)
RunDec(r) ==
    /\ pc[r] = "runDec"
    /\ running' = running - 1
    /\ pc' = [pc EXCEPT ![r] = "exit"]
    /\ UNCHANGED <<cfgVars, limiter, sendq, total, timedOut, rejected, ctxDone,
                   err, respVars, nextCalled, events, path, panicked, overAtInc, cancelledParked>>

\* faulty variant: the decrement is not deferred and is skipped when a panic unwinds
ExitNotDeferred(r) ==
    /\ pc[r] = "exit"
    /\ total' = IF panicked[r] THEN total ELSE total - 1
    /\ pc' = [pc EXCEPT ![r] = "done"]
    /\ err' = [err EXCEPT ![r] = NilErr]
    /\ overAtInc' = [overAtInc EXCEPT ![r] = FALSE]
    /\ cancelledParked' = [cancelledParked EXCEPT ![r] = FALSE]
    /\ ctxDone' = [ctxDone EXCEPT ![r] = TRUE]
    /\ UNCHANGED <<cfgVars, limiter, sendq, running, timedOut, rejected,
                   respVars, nextCalled, events, path, panicked>>

\* defer rm.total.Add(-1): runs on return and while a panic unwinds; the
\* handler's locals end with the call, and net/http
\* cancels the request's context once the handler chain has returned
Exit(r) ==
    /\ pc[r] = "exit"
    /\ total' = total - 1
    /\ pc' = [pc EXCEPT ![r] = "done"]
    /\ err' = [err EXCEPT ![r] = NilErr]
    /\ overAtInc' = [overAtInc EXCEPT ![r] = FALSE]
    /\ cancelledParked' = [cancelledParked EXCEPT ![r] = FALSE]
    /\ ctxDone' = [ctxDone EXCEPT ![r] = TRUE]
    /\ UNCHANGED <<cfgVars, limiter, sendq, running, timedOut, rejected,
                   respVars, nextCalled, events, path, panicked>>

Next ==
    \E r \in Reqs :
        \/ \E k \in CtxKinds : Enter(r, k)
        \/ Check(r)
        \/ SelectSend(r)
        \/ SelectDone(r)
        \/ SelectPark(r)
        \/ CtxCancel(r)
        \/ WokenDone(r)
        \/ RunStart(r)
        \/ \E st \in DownstreamStatuses : NextReturn(r, st)
        \/ NextPanic(r)
        \/ Release(r)
        \/ RunDec(r)
        \/ Exit(r)

Spec == Init /\ [][Next]_vars

\* every step of the handler itself is eventually scheduled; arrivals,
\* cancellations and the return of a downstream chain are up to the environment
Fairness ==
    \A r \in Reqs :
        /\ WF_vars(Check(r))
        /\ WF_vars(SelectSend(r) \/ SelectDone(r) \/ SelectPark(r))
        /\ WF_vars(WokenDone(r))
        /\ WF_vars(RunStart(r))
        /\ WF_vars(Release(r))
        /\ WF_vars(RunDec(r))
        /\ WF_vars(Exit(r))

LiveSpec == LiveInit /\ [][Next]_vars /\ Fairness

\* every downstream chain eventually returns or panics
DownstreamEnds ==
    \A r \in Reqs :
        WF_vars((\E st \in DownstreamStatuses : NextReturn(r, st)) \/ NextPanic(r))

ProgressSpec == LiveInit /\ [][Next]_vars /\ Fairness /\ DownstreamEnds

TypeOK ==
    /\ limiter \in 0..limiterCap
    /\ pc \in [Reqs -> {"idle", "check", "select", "parked", "wokeDone", "run",
                        "next", "release", "runDec", "exit", "done"}]
    /\ idpc \in [IdReqs -> {"start", "chain", "handler", "aborted", "end"}]
    /\ uuids \in 0..NumIdReqs
    /\ connLimiter \in 0..connCap
    /\ cpc \in [ConnReqs -> {"idle", "send", "next", "recv", "recovered", "done"}]
\* ------------------------------------------------------------- properties
Inside == {r \in Reqs : pc[r] \notin {"idle", "done"}}
\* sent into rm.limiter and not yet received from it
Holders == {r \in Reqs : pc[r] \in {"run", "next", "release"}}
\* inside c.Next()
Executing == {r \in Reqs : pc[r] = "next"}
\* between rm.running.Add(1) and rm.running.Add(-1)
Counted == {r \in Reqs : pc[r] \in {"next", "release", "runDec"}}
Waiting == {r \in Reqs : pc[r] \in {"select", "parked", "wokeDone"}}
Range(q) == {q[i] : i \in 1..Len(q)}

\* C1: in every reachable state the requests holding a running slot are exactly
\* the elements buffered in the limiter channel, and neither they nor the
\* downstream chains executing at once number more than maxRunning.
C1_SlotsBounded ==
    /\ limiter = Cardinality(Holders)
    /\ Cardinality(Holders) <= maxRunning
    /\ Cardinality(Executing) <= maxRunning

\* every slot is taken and another request is parked behind them
C1_Witness ==
    /\ Cardinality(Holders) = maxRunning
    /\ \E r \in Reqs : pc[r] = "parked"

\* C2: the in-flight counter equals the number of requests inside the
\* middleware, whatever path each took; it is 0 whenever nobody is inside.
C2_TotalCountsInside ==
    /\ total = Cardinality(Inside)
    /\ (Inside = {} => total = 0)

\* a rejected, a timed-out and a panicked request have all left
C2_Witness ==
    /\ Inside = {}
    /\ total = 0
    /\ \E a, b, c \in Reqs :
          /\ pc[a] = "done" /\ path[a] = "rejected"
          /\ pc[b] = "done" /\ path[b] = "timedOut"
          /\ pc[c] = "done" /\ path[c] = "ran" /\ panicked[c]

\* C3: a slot taken is given back whether the downstream chain returns or
\* panics: the channel holds exactly the slots of the current holders and the
\* running counter only requests still inside runReqWithSync, so both are 0
\* once every request has left.
C3_SlotReturned ==
    /\ limiter = Cardinality(Holders)
    /\ running = Cardinality(Counted)
    /\ (Inside = {} => limiter = 0 /\ running = 0)

\* after a panicked request has left, a later request holds the only slot
C3_Witness ==
    /\ maxRunning = 1
    /\ \E a, b \in Reqs :
          /\ pc[a] = "done" /\ path[a] = "ran" /\ panicked[a]
          /\ pc[b] = "next"

\* C4 as claimed: a request whose own increment produced a count above maxWait
\* is rejected, whatever happens between the increment and the bound check.
C4_Original ==
    \A r \in Reqs :
        (overAtInc[r] /\ pc[r] \notin {"idle", "check"}) => path[r] = "rejected"

\* C4 amended: a request that reads a count above maxWait at its bound check is
\* rejected: the rejected counter grows by exactly 1 in that step, the channel
\* is left alone, and a rejected request never waits, holds a slot or runs.
C4_RejectedAtCheck ==
    /\ [][\A r \in Reqs :
            (pc[r] = "check" /\ pc'[r] # "check" /\ total > maxWait) =>
                /\ rejected' = rejected + 1
                /\ path'[r] = "rejected"
                /\ pc'[r] = "exit"
                /\ limiter' = limiter
                /\ sendq' = sendq]_vars
    /\ [](\A r \in Reqs :
            path[r] = "rejected" =>
                /\ pc[r] \in {"exit", "done"}
                /\ ~nextCalled[r]
                /\ r \notin Range(sendq))

\* the last of the requests to arrive was rejected while all the others were
\* still in front of their own bound check
C4_Witness ==
    \E r \in Reqs :
        /\ pc[r] = "exit" /\ path[r] = "rejected"
        /\ \A q \in Reqs \ {r} : q < r /\ pc[q] = "check"
        /\ total > maxWait

\* C5 as claimed: a request whose own increment produced a count of at most
\* maxWait is not rejected; with maxRunning = 1 and maxWait = 2 a second
\* request arriving while the first holds the slot leaves rejected at 0.
C5_Claim ==
    /\ \A r \in Reqs :
          (pc[r] = "exit" /\ path[r] = "rejected") => overAtInc[r]
    /\ \A a, b \in Reqs :
          (/\ maxRunning = 1 /\ maxWait = 2
           /\ a # b /\ pc[a] = "next" /\ pc[b] \notin {"idle", "check"}
           /\ \A q \in Reqs \ {a, b} : pc[q] = "idle")
          => (path[b] # "rejected" /\ rejected = 0)

\* C6 as claimed: a request that took the rejection path has status 429 and
\* the configured Retry-After header.
C6_Claim ==
    \A r \in Reqs :
        (path[r] = "rejected" /\ pc[r] \in {"exit", "done"}) =>
            (status[r] = StatusTooManyRequests /\ retryHdr[r] = Itoa(retryAfter))

\* C7: a request whose wait ended on its own Done has status 429, the
\* configured Retry-After header, an aborted chain, and never ran c.Next().
C7_TimedOutResponse ==
    \A r \in Reqs :
        path[r] = "timedOut" =>
            /\ status[r] = StatusTooManyRequests
            /\ retryHdr[r] = Itoa(retryAfter)
            /\ aborted[r]
            /\ ~nextCalled[r]

\* a request has left after timing out
C7_Witness == \E r \in Reqs : pc[r] = "done" /\ path[r] = "timedOut"

C9_CountersDisjoint ==
    /\ [](rejected = Cardinality({r \in Reqs : path[r] = "rejected"}))
    /\ [](timedOut = Cardinality({r \in Reqs : path[r] = "timedOut"}))
    /\ [][(rejected' - rejected) + (timedOut' - timedOut) \in {0, 1}]_vars

\* one request of each outcome has left
C9_Witness ==
    /\ rejected = 1 /\ timedOut = 1
    /\ \E a, b, c \in Reqs :
          /\ pc[a] = "done" /\ path[a] = "rejected"
          /\ pc[b] = "done" /\ path[b] = "timedOut"
          /\ pc[c] = "done" /\ path[c] = "ran" /\ ~panicked[c]

\* C10: under fair scheduling of the handler's own steps, a request that is
\* waiting for a slot with its context done stops waiting, whether or not the
\* slot holders ever finish: it leaves the middleware, or it has won the slot
\* and is inside its own downstream chain; one woken by its Done leaves as
\* TimedOut.
C10_NoStarvationPastDeadline ==
    /\ \A r \in Reqs :
          (r \in Waiting /\ ctxDone[r]) ~> (pc[r] \in {"done", "next"})
    /\ \A r \in Reqs :
          (pc[r] = "wokeDone") ~> (pc[r] = "done" /\ path[r] = "timedOut")

\* a request cancelled while parked has timed out although the holder of the
\* only slot is still inside its downstream chain
C10_Witness ==
    \E a, b \in Reqs :
        /\ pc[a] = "next" /\ limiter = maxRunning
        /\ pc[b] = "exit" /\ cancelledParked[b] /\ path[b] = "timedOut"

\* C11: when every downstream chain eventually returns or panics and the
\* handler's steps are scheduled fairly, no request waits forever: a waiting
\* request stops waiting, a parked request whose context stays live is handed
\* the slot freed by a finishing request, and every request that entered
\* leaves the middleware.
C11_DeadlockFree ==
    /\ \A r \in Reqs : (r \in Waiting) ~> (r \notin Waiting)
    /\ \A r \in Reqs : (pc[r] = "parked") ~> (pc[r] = "run" \/ ctxDone[r])
    /\ \A r \in Reqs : (pc[r] # "idle") ~> (pc[r] = "done")

\* the holder of the only slot has given it back and the other request, its
\* context still live, now holds it
C11_Witness ==
    \E a, b \in Reqs :
        /\ limiterCap = 1 /\ limiter = 1
        /\ pc[a] = "runDec"
        /\ pc[b] = "run" /\ ~ctxDone[b]

\* C12 as claimed: a panic of the downstream chain is caught inside the rate
\* limiter: a request that ran its downstream chain leaves the middleware
\* with no panic unwinding into the caller.
C12_Claim ==
    \A r \in Reqs : (pc[r] = "done" /\ path[r] = "ran") => ~panicked[r]

\* C13 as claimed: the value GetRunningRequests() returns (rm.running.Load())
\* lies between 0 and maxRunning in every reachable state, also while one
\* request gives its slot back and another takes it.
C13_Claim == running >= 0 /\ running <= maxRunning

\* past the bound test and not yet at the deferred total.Add(-1) done
Admitted ==
    {r \in Reqs : \/ pc[r] \in {"select", "parked", "wokeDone", "run", "next",
                                "release", "runDec"}
                  \/ (pc[r] = "exit" /\ path[r] \in {"timedOut", "ran"})}
\* counted in total and either still in front of the bound test or on the
\* way out after failing it
Racing ==
    {r \in Reqs : \/ pc[r] = "check"
                  \/ (pc[r] = "exit" /\ path[r] \in {"rejected", "idError"})}

\* C14: the requests that passed the bound test and have not left never number
\* more than maxWait, and the in-flight counter exceeds maxWait by no more than
\* the number of requests that have incremented it and have neither passed the
\* bound test nor finished their rejection.
C14_AdmittedBounded ==
    /\ Cardinality(Admitted) <= maxWait
    /\ total - maxWait <= Cardinality(Racing)

\* the counter is above maxWait while one request is admitted, one is being
\* rejected and one is still in front of the bound test
C14_Witness ==
    /\ total > maxWait
    /\ Admitted # {}
    /\ \E r, q \in Racing : pc[r] = "exit" /\ pc[q] = "check"

\* C15: no step of any request decreases or resets the rejected counter or the
\* timedOut counter, which are what GetRejectedRequests() and
\* GetTimedOutRequests() return.
C15_CountersMonotone ==
    [][rejected' >= rejected /\ timedOut' >= timedOut]_vars

\* both counters have grown and keep their values after every request has left
C15_Witness ==
    /\ rejected = 2 /\ timedOut = 1
    /\ \A r \in Reqs : pc[r] = "done"

\* C16: every call of NewRateLimiter returns a RateLimiter; each argument
\* below 1 is stored as its default (100, 100, 1), each argument of at least 1
\* is stored as given, whatever the other two arguments are, and the capacity
\* of the slot channel is the stored maxRunning.
C16_Normalized ==
    args # <<>> =>
        /\ (args[1] < 1 => maxRunning = 100) /\ (args[1] >= 1 => maxRunning = args[1])
        /\ (args[2] < 1 => maxWait = 100) /\ (args[2] >= 1 => maxWait = args[2])
        /\ (args[3] < 1 => retryAfter = 1) /\ (args[3] >= 1 => retryAfter = args[3])
        /\ limiterCap = maxRunning
        /\ limiterCap >= 1

\* a call that mixes a negative, a zero and a valid argument
C16_Witness ==
    /\ args = <<-1, 2, 0>>
    /\ maxRunning = 100 /\ maxWait = 2 /\ retryAfter = 1

\* C17 as claimed: for each argument below 1 the log holds a warning whose
\* "supplied limit" is the value the caller passed and whose "default" is the
\* default that was stored.
C17_Claim ==
    args # <<>> =>
        /\ args[1] < 1 =>
              \E i \in DOMAIN warnings :
                  /\ warnings[i].msg = "invalid max connection limit"
                  /\ warnings[i].supplied = args[1]
                  /\ warnings[i].default = maxRunning
        /\ args[2] < 1 =>
              \E i \in DOMAIN warnings :
                  /\ warnings[i].msg = "invalid max total limit"
                  /\ warnings[i].supplied = args[2]
                  /\ warnings[i].default = maxWait
        /\ args[3] < 1 =>
              \E i \in DOMAIN warnings :
                  /\ warnings[i].msg = "invalid max retry after"
                  /\ warnings[i].supplied = args[3]
                  /\ warnings[i].default = retryAfter

\* C18 as claimed: whatever the arguments, the RateLimiter that NewRateLimiter
\* returns stores an in-flight bound that is at least its number of slots.
C18_Claim == args # <<>> => maxWait >= maxRunning

\* C19: a request that passed RequestIDMiddleware with a non-empty inbound
\* X-Request-ID carries that same value in its response header; one that came
\* without the header carries an identifier genUuid produced; and two requests
\* that came without the header carry different identifiers.
C19_IdEchoedOrFresh ==
    /\ \A r \in IdReqs :
          chosenBy[r] = "middleware" =>
              /\ (inHeader[r] # EmptyString => outHeader[r] = inHeader[r])
              /\ (inHeader[r] = EmptyString =>
                    \E n \in 1..uuids : outHeader[r] = genUuid(n))
    /\ \A r, q \in IdReqs :
          (/\ r # q
           /\ chosenBy[r] = "middleware" /\ inHeader[r] = EmptyString
           /\ chosenBy[q] = "middleware" /\ inHeader[q] = EmptyString)
          => outHeader[r] # outHeader[q]

\* one request with the header and two without it have gone through the
\* middleware and their chains have returned
C19_Witness ==
    \E a, b, c \in IdReqs :
        /\ b # c
        /\ \A r \in {a, b, c} : chosenBy[r] = "middleware" /\ idpc[r] = "end"
        /\ inHeader[a] \in ClientIds
        /\ inHeader[b] = EmptyString /\ inHeader[c] = EmptyString

\* C20: once RequestIDMiddleware or the fallback of GetRequestIDFromCtx has
\* chosen a request's identifier, the per-request context and the response
\* header hold that same non-empty string, in every state in which the chain
\* below the choice is running or has returned.
C20_ContextEqualsHeader ==
    \A r \in IdReqs :
        chosenBy[r] # "none" =>
            /\ idpc[r] \in {"chain", "handler", "end"}
            /\ outHeader[r] # EmptyString
            /\ keys[r] = StringKey(outHeader[r])

\* the chain is running below a middleware-chosen identifier for one request
\* and below a fallback identifier for another
C20_Witness ==
    \E a, b \in IdReqs :
        /\ chosenBy[a] = "middleware" /\ idpc[a] = "handler"
        /\ chosenBy[b] = "fallback" /\ idpc[b] = "handler"

\* C21 as claimed: when the context holds a non-string value under the key,
\* the rate limiter goes on with the request, with an error to log and with a
\* non-empty identifier that genUuid produced.
C21_Claim ==
    \A r \in IdReqs :
        (keys[r].typ = "nonstring" /\ idpc[r] \in {"handler", "aborted", "end"}) =>
            /\ idpc[r] # "aborted"
            /\ gotErr[r] # NilErr
            /\ \E n \in 1..uuids : gotId[r] = genUuid(n)

\* C22: a call of GetRequestIDFromCtx does exactly one of three things.  With
\* a string under the key it returns that string and a nil error and leaves
\* context and response header alone; with no key it returns an identifier
\* generated by this call and an ErrFallbackUuidUsed, and stores the
\* identifier in context and response header; with a non-string value it
\* returns the empty string and an ErrTypeCastFailed and leaves context and
\* response header alone.  It returns no other error.
C22_Classified ==
    [][\A r \in IdReqs :
          (idpc[r] = "chain" /\ idpc'[r] # "chain") =>
              /\ keys[r].typ = "string" =>
                    /\ gotId'[r] = keys[r].val /\ gotErr'[r] = NilErr
                    /\ keys'[r] = keys[r] /\ outHeader'[r] = outHeader[r]
              /\ keys[r].typ = "absent" =>
                    /\ uuids' = uuids + 1 /\ gotId'[r] = genUuid(uuids')
                    /\ gotErr'[r].typ = "ErrFallbackUuidUsed"
                    /\ keys'[r] = StringKey(gotId'[r]) /\ outHeader'[r] = gotId'[r]
              /\ keys[r].typ = "nonstring" =>
                    /\ gotId'[r] = EmptyString
                    /\ gotErr'[r].typ = "ErrTypeCastFailed"
                    /\ keys'[r] = keys[r] /\ outHeader'[r] = outHeader[r]
              /\ gotErr'[r].typ \in {"nil", "ErrFallbackUuidUsed", "ErrTypeCastFailed"}]_vars

\* the three kinds of context have each been through a call
C22_Witness ==
    \E a, b, c \in IdReqs :
        /\ idpc[a] = "handler" /\ gotErr[a] = NilErr /\ gotId[a] \in ClientIds
        /\ idpc[b] = "handler" /\ gotErr[b].typ = "ErrFallbackUuidUsed"
        /\ idpc[c] = "handler" /\ gotErr[c].typ = "ErrTypeCastFailed"

\* C26 as claimed: RequestIDMiddleware keeps an inbound X-Request-ID only when
\* it is well-formed; for one that is present and malformed, the response
\* header and the context hold a newly generated version-4 UUID instead.
C26_Claim ==
    \A r \in IdReqs :
        chosenBy[r] = "middleware" =>
            /\ IsUuid4(outHeader[r])
            /\ (inHeader[r] \in MalformedIds =>
                  /\ \E n \in 1..uuids : outHeader[r] = genUuid(n)
                  /\ keys[r] = StringKey(outHeader[r]))
            /\ (outHeader[r] = inHeader[r] => IsUuid4(inHeader[r]))

\* C23: on the path of a request that got a slot, no step of the middleware
\* writes the response: the status is the default until the downstream chain
\* sets it and stays what the chain set until the middleware has returned,
\* and the request carries no Retry-After header and is not aborted.
C23_ResponseUntouched ==
    /\ [](\A r \in Reqs :
            path[r] = "ran" => (retryHdr[r] = NoHeader /\ ~aborted[r]))
    /\ [](\A r \in Reqs :
            (pc[r] \in {"run", "next"}) => status[r] = DefaultStatus)
    /\ [][\A r \in Reqs :
            (pc[r] \in {"run", "release", "runDec", "exit"} /\ path'[r] = "ran") =>
                (status'[r] = status[r] /\ retryHdr'[r] = retryHdr[r])]_vars

\* a request whose downstream chain answered 500 has left with that status
C23_Witness ==
    \E r \in Reqs :
        /\ pc[r] = "done" /\ path[r] = "ran" /\ ~panicked[r]
        /\ status[r] = StatusInternalServerError /\ retryHdr[r] = NoHeader

\* C24: the timedOut counter grows only in a step of a request whose own
\* context is done at that step, which leaves that request on the timeout
\* path; a request is on the timeout path or woken for it only with its
\* context done, so one whose context stays live keeps waiting or gets a slot.
C24_NoOwnTimeout ==
    /\ [][timedOut' # timedOut =>
            \E r \in Reqs :
                /\ ctxDone[r]
                /\ r \in Waiting
                /\ path'[r] = "timedOut" /\ status'[r] = StatusTooManyRequests]_vars
    /\ [](\A r \in Reqs :
            (path[r] = "timedOut" \/ pc[r] = "wokeDone") => ctxDone[r])

\* a request has been timed out while another, its context live, is still
\* parked behind the holder of the slot
C24_Witness ==
    \E a, b \in Reqs :
        /\ pc[a] = "parked" /\ ~ctxDone[a]
        /\ path[b] = "timedOut"

\* C25 as claimed: for every request that got a slot, "request accepted" is
\* the one event emitted when the downstream chain is invoked, and once the
\* chain has ended, however it ended, "request completed" with the status of
\* the response has followed it before the slot is given back.
C25_Claim ==
    \A r \in Reqs :
        /\ pc[r] = "next" => events[r] = <<Accepted>>
        /\ (path[r] = "ran" /\ pc[r] \in {"release", "runDec", "exit", "done"}) =>
              events[r] = <<Accepted, Completed(status[r])>>

\* C27: a downstream chain runs only for a request that holds a slot, and only
\* on the path of a request that got one; a request that was rejected, timed
\* out or was aborted on an identifier error never has its chain invoked: it
\* leaves the handler with the chain aborted or with a panic unwinding, so
\* that gin does not go on to the next handler either.
C27_NextOnlyWithSlot ==
    /\ \A r \in Reqs : pc[r] = "next" => (r \in Holders /\ path[r] = "ran")
    /\ \A r \in Reqs : nextCalled[r] => path[r] = "ran"
    /\ \A r \in Reqs :
          path[r] \in {"rejected", "timedOut", "idError"} =>
              /\ ~nextCalled[r] /\ events[r] = <<>>
              /\ pc[r] \in {"exit", "done"}
              /\ (aborted[r] \/ panicked[r])

\* one chain is running under the slot after a rejected and a timed-out
\* request have left
C27_Witness ==
    \E a, b, c \in Reqs :
        /\ pc[a] = "next"
        /\ pc[b] = "done" /\ path[b] = "rejected"
        /\ pc[c] = "done" /\ path[c] = "timedOut"

\* C28 as claimed: when a request is rejected, at least maxWait - 1 other
\* requests are waiting for a slot or holding one at that step; requests that
\* are themselves being rejected do not count towards a rejection.
C28_Original ==
    [][\A r \in Reqs :
          (pc[r] = "check" /\ path'[r] = "rejected") =>
              Cardinality((Waiting \cup Holders) \ {r}) >= maxWait - 1]_vars

\* C28 amended: when a request is rejected, at least maxWait - 1 other
\* requests are between their increment of the in-flight counter and their
\* decrement of it at that step, whatever they are doing there: waiting,
\* holding a slot, finishing, still in front of their own bound test, or
\* being rejected themselves.
C28_RejectedOnCountedLoad ==
    [][\A r \in Reqs :
          (pc[r] = "check" /\ path'[r] = "rejected") =>
              Cardinality(Inside \ {r}) >= maxWait - 1]_vars

\* two requests are being rejected at once while nobody waits for a slot or
\* holds one
C28_Witness ==
    /\ Waiting \cup Holders = {}
    /\ \E r, q \in Reqs :
          /\ r # q
          /\ pc[r] = "exit" /\ path[r] = "rejected"
          /\ pc[q] = "exit" /\ path[q] = "rejected"

\* ------------------------------------------------------------------ C29
ConnExecuting == {r \in ConnReqs : cpc[r] = "next"}
ConnHolders == {r \in ConnReqs : cpc[r] \in {"next", "recv"}}

\* C29: clientConnLimiter never lets more than MaxConn downstream handlers
\* execute at once, and every slot it took goes back to the channel on every
\* exit path of the downstream handler, a panic recovered by gin.Recovery
\* included: at any time the slots taken are those of the requests that are
\* still between their send and their receive, and none is lost for good.
C29_Claim ==
    /\ Cardinality(ConnExecuting) <= connCap
    /\ connLimiter = Cardinality(ConnHolders)

\* ------------------------------------------------------------------ C30
\* r stands alone at the send of an idle limiter
ConnAloneAtIdle(r) ==
    /\ cpc[r] = "send"
    /\ connLimiter = 0
    /\ \A q \in ConnReqs \ {r} : cpc[q] \in {"idle", "done", "recovered"}

\* C30: for every MaxConn that the validation accepts, 0 included, a request
\* that arrives at an idle clientConnLimiter eventually takes a slot and runs
\* its downstream handler (unless other requests come in meanwhile); no
\* accepted MaxConn makes every request block forever.
C30_Claim ==
    \A r \in ConnReqs :
        ConnAloneAtIdle(r) ~>
            (cpc[r] = "next" \/ \E q \in ConnReqs \ {r} : cpc[q] \in {"send", "next", "recv"})

====
